---- MODULE Spec2Model ----
(***************************************************************************)
(* Model of malmo::AgentHost (src/Malmo/src/AgentHost.cpp): the mission    *)
(* negotiation (reserveClients / findServer / findClient), the listener    *)
(* callbacks that aggregate telemetry into the WorldState, and the mission *)
(* lifecycle driven by the mission-control channel.                        *)
(*                                                                         *)
(* The agent's thread runs startMission step by step: one step per         *)
(* request/reply exchange with a host of the client pool.  The mutex       *)
(* world_state_mutex is taken at line 156 and held until startMission      *)
(* returns or throws.  A listener callback takes the mutex for its whole   *)
(* body, so a callback is one step, enabled while the mutex is free.       *)
(***************************************************************************)
EXTENDS Integers, Sequences, FiniteSets, TLC

\* ------------------------------------------------------------------ bounds
MaxPool == 3          \* longest client pool handed to startMission
MaxAgents == 2        \* largest mission.getNumberOfAgents()
MaxDeliveries == 3    \* telemetry messages delivered between two clears
MaxMessages == 1      \* mission-control messages retained between two drains
MaxErrors == 1        \* error entries retained between two drains

Timestamps == {1, 2}   \* timestamps that telemetry messages carry

\* ------------------------------------------------------- strings as arrays
\* A std::string is a sequence of characters, so that prefix match
\* (reply.find(p) == 0), equality, find_first_of, substr and sscanf are
\* computed as the code computes them.
malmo_mission_accepted == <<"M", "A", "L", "M", "O", "O", "K">>
malmo_reservation_prefix == <<"M", "A", "L", "M", "O", "O", "K">>
malmo_server_prefix == <<"M", "A", "L", "M", "O", "S">>

\* Replies a host can give (besides not answering at all).
ReplyOkExtra == <<"M", "A", "L", "M", "O", "O", "K", "!">>
ReplyBusy == <<"M", "A", "L", "M", "O", "B", "U", "S", "Y">>
ReplyError == <<"M", "A", "L", "M", "O", "E", "R", "R", "O", "R">>
ReplyServerG == <<"M", "A", "L", "M", "O", "S", "g", ":", "8">>
ReplyServerH == <<"M", "A", "L", "M", "O", "S", "h", ":", "7", "x">>
ReplyServerNoColon == <<"M", "A", "L", "M", "O", "S", "h">>
ReplyServerBadPort == <<"M", "A", "L", "M", "O", "S", "h", ":", "p">>

Unreachable == <<"unreachable">>   \* SendStringAndGetShortReply throws

ClientReplies == {malmo_mission_accepted, ReplyOkExtra, ReplyBusy, ReplyError}
ReserveReplies == {malmo_reservation_prefix, ReplyOkExtra, ReplyBusy}
ServerReplies ==
    {ReplyServerG, ReplyServerH, ReplyServerNoColon, ReplyServerBadPort, ReplyError}

\* reply.find(prefix) == 0
StartsWith(s, prefix) ==
    /\ Len(s) >= Len(prefix)
    /\ SubSeq(s, 1, Len(prefix)) = prefix

\* s.find_first_of(c): 0-based position of the first c, or npos (-1)
npos == 0 - 1
FindFirstOf(s, c) ==
    IF \E k \in 1..Len(s) : s[k] = c
    THEN (CHOOSE k \in 1..Len(s) : s[k] = c /\ \A j \in 1..(k - 1) : s[j] # c) - 1
    ELSE npos

\* s.substr(pos, count), 0-based, count clipped to the end of s
Substr(s, pos, count) ==
    SubSeq(s, pos + 1, IF pos + count > Len(s) THEN Len(s) ELSE pos + count)

Digits == {"0", "1", "2", "3", "4", "5", "6", "7", "8", "9"}
DigitValue(c) ==
    CASE c = "0" -> 0 [] c = "1" -> 1 [] c = "2" -> 2 [] c = "3" -> 3
      [] c = "4" -> 4 [] c = "5" -> 5 [] c = "6" -> 6 [] c = "7" -> 7
      [] c = "8" -> 8 [] c = "9" -> 9

\* Length of the longest prefix of s made of digits.
RECURSIVE DigitPrefixLen(_)
DigitPrefixLen(s) ==
    IF s = <<>> \/ Head(s) \notin Digits THEN 0 ELSE 1 + DigitPrefixLen(Tail(s))

RECURSIVE DigitsValue(_, _)
DigitsValue(s, acc) ==
    IF s = <<>> THEN acc ELSE DigitsValue(Tail(s), 10 * acc + DigitValue(Head(s)))

\* sscanf(s, "%d", &v): n is the number of conversions (0 or 1); the
\* conversion reads the leading digits and stops at the first other character.
Sscanf(s) ==
    LET k == DigitPrefixLen(s)
    IN  IF k = 0 THEN [n |-> 0, value |-> 0]
        ELSE [n |-> 1, value |-> DigitsValue(SubSeq(s, 1, k), 0)]

\* ------------------------------------------------------------- the state
VARIABLES
    world_state,            \* WorldState: flags, sequences, counters
    video_policy,           \* VideoPolicy
    rewards_policy,         \* RewardsPolicy
    observations_policy,    \* ObservationsPolicy
    current_mission_init,   \* the negotiation record (MissionInitSpec) or NoMissionInit
    current_mission_record, \* the recording spec (MissionRecord) or NoMissionRecord
    current_role,           \* role index
    servers,                \* which of the four listeners exist
    commands_stream,        \* TRUE iff the command recording stream is open
    commands_connection,    \* TRUE iff the outbound command channel exists
    mutex,                  \* world_state_mutex: "free" or its holder
    pc,                     \* position of the agent's thread inside startMission
    mission,                \* startMission's argument mission (what is read of it)
    client_pool,            \* startMission's argument client_pool
    pool,                   \* the pool handed to findServer / findClient
    i,                      \* loop index of the search in progress
    clients_required,       \* reserveClients' countdown
    reservedClients,        \* reserveClients' local pool
    sent,                   \* requests sent by the startMission in progress or just left
    result,                 \* outcome of the agent's call, in the state it is left in
    returned,               \* snapshot handed back, in the state the accessor is left in
    delivered,              \* history: telemetry received of each kind since the last clear
    policy_kept             \* history: policy of each kind unchanged since the last clear

vars ==
    <<world_state, video_policy, rewards_policy, observations_policy,
      current_mission_init, current_mission_record, current_role, servers,
      commands_stream, commands_connection, mutex, pc, mission,
      client_pool, pool, i, clients_required, reservedClients, sent,
      result, returned, delivered, policy_kept>>

\* what startMission's negotiation reads and writes on the agent's thread
call_vars ==
    <<pc, mission, client_pool, pool, i, clients_required, reservedClients>>


policy_vars == <<video_policy, rewards_policy, observations_policy>>

listener_vars == <<servers>>

\* null pointers and absent values
NoMissionInit == [null |-> TRUE]
NoMissionRecord == [null |-> TRUE]
NoServerInformation == [null |-> TRUE]
NoSnapshot == [null |-> TRUE]
NoMission == [null |-> TRUE]

\* sent, result and returned describe the agent's call in progress or the one
\* that the last step completed; any other step forgets them
NoObservation ==
    /\ sent' = <<>>
    /\ result' = "none"
    /\ returned' = NoSnapshot

\* ---------------------------------------------------------- WorldState
\* WorldState::clear(): both flags false, every sequence empty, every counter 0.
EmptyWorldState ==
    [is_mission_running |-> FALSE,
     has_mission_begun |-> FALSE,
     mission_control_messages |-> <<>>,
     observations |-> <<>>,
     rewards |-> <<>>,
     video_frames |-> <<>>,
     errors |-> <<>>,
     number_of_observations_since_last_state |-> 0,
     number_of_rewards_since_last_state |-> 0,
     number_of_video_frames_since_last_state |-> 0]

WorldStateClear(ws) == EmptyWorldState

\* errors.push_back( error_message )
PushError(ws, text) == [ws EXCEPT !.errors = Append(@, text)]

\* the model follows the program while what is retained stays within the bounds
WithinBounds(ws) ==
    /\ Len(ws.mission_control_messages) <= MaxMessages
    /\ Len(ws.errors) <= MaxErrors
    /\ ws.number_of_observations_since_last_state
          + ws.number_of_rewards_since_last_state
          + ws.number_of_video_frames_since_last_state <= MaxDeliveries

NoDeliveries == [video |-> <<>>, rewards |-> <<>>, observations |-> <<>>]
AllKept == [video |-> TRUE, rewards |-> TRUE, observations |-> TRUE]

\* ------------------------------------------------------ telemetry values
VideoFrames == [timestamp : Timestamps]
Observations == [timestamp : Timestamps]
\* a string on the rewards channel: createFromSimpleString either parses it
\* into a value or throws
RewardMessages ==
    {[timestamp |-> 1, wellformed |-> TRUE, value |-> 0 - 1],
     [timestamp |-> 2, wellformed |-> TRUE, value |-> 2],
     [timestamp |-> 1, wellformed |-> FALSE, value |-> 0]}

VideoPolicies == {"LATEST_FRAME_ONLY", "KEEP_ALL_FRAMES"}
RewardsPolicies == {"LATEST_REWARD_ONLY", "SUM_REWARDS", "KEEP_ALL_REWARDS"}
ObservationsPolicies == {"LATEST_OBSERVATION_ONLY", "KEEP_ALL_OBSERVATIONS"}

\* TimestampedReward::add(other): the values are summed; the timestamp is the
\* receiver's.
RewardAdd(reward, other) == [reward EXCEPT !.value = @ + other.value]

\* ------------------------------------------------- merge policies
\* mutant: LATEST_FRAME_ONLY forgets video_frames.clear()
ApplyVideoPolicy_NoClear(frames, message, policy) == Append(frames, message)

\* onVideo, lines 642-651
ApplyVideoPolicy(frames, message, policy) ==
    CASE policy = "LATEST_FRAME_ONLY" -> <<message>>
      [] policy = "KEEP_ALL_FRAMES" -> Append(frames, message)

\* mutant: KEEP_ALL_OBSERVATIONS pushes to the front
ApplyObservationsPolicy_PushFront(observations, message, policy) ==
    CASE policy = "LATEST_OBSERVATION_ONLY" -> <<message>>
      [] policy = "KEEP_ALL_OBSERVATIONS" -> <<message>> \o observations

\* onObservation, lines 701-710
ApplyObservationsPolicy(observations, message, policy) ==
    CASE policy = "LATEST_OBSERVATION_ONLY" -> <<message>>
      [] policy = "KEEP_ALL_OBSERVATIONS" -> Append(observations, message)

\* mutant: SUM_REWARDS adds the new reward to the retained one and keeps that
ApplyRewardsPolicy_SumIntoOld(rewards, reward, policy) ==
    CASE policy = "LATEST_REWARD_ONLY" -> <<reward>>
      [] policy = "SUM_REWARDS" ->
            IF rewards # <<>> THEN <<RewardAdd(Head(rewards), reward)>>
            ELSE <<reward>>
      [] policy = "KEEP_ALL_REWARDS" -> Append(rewards, reward)

\* processReceivedReward, lines 675-692
ApplyRewardsPolicy(rewards, reward, policy) ==
    CASE policy = "LATEST_REWARD_ONLY" -> <<reward>>
      [] policy = "SUM_REWARDS" ->
            IF rewards # <<>> THEN <<RewardAdd(reward, Head(rewards))>>
            ELSE <<reward>>
      [] policy = "KEEP_ALL_REWARDS" -> Append(rewards, reward)

\* processReceivedReward as a function of the WorldState
processReceivedReward(ws, reward) ==
    [ws EXCEPT
        !.rewards = ApplyRewardsPolicy(@, reward, rewards_policy),
        !.number_of_rewards_since_last_state = @ + 1]

\* reward.createFromSimpleString( message.timestamp, message.text ), for a
\* text that parses
createFromSimpleString(message) ==
    [timestamp |-> message.timestamp, value |-> message.value]

\* ---------------------------------------------- telemetry callbacks
onVideo(message) ==
    /\ servers.video
    /\ mutex = "free"
    /\ world_state' =
          [world_state EXCEPT
              !.video_frames = ApplyVideoPolicy(@, message, video_policy),
              !.number_of_video_frames_since_last_state = @ + 1]
    /\ WithinBounds(world_state')
    /\ delivered' = [delivered EXCEPT !.video = Append(@, message)]
    /\ UNCHANGED <<policy_vars, current_mission_init, current_mission_record,
                   current_role, listener_vars, commands_stream,
                   commands_connection, mutex, call_vars, policy_kept>>
    /\ NoObservation

onReward(message) ==
    /\ servers.rewards
    /\ mutex = "free"
    /\ IF message.wellformed
       THEN world_state' = processReceivedReward(world_state, createFromSimpleString(message))
       ELSE world_state' = PushError(world_state, "Error parsing Reward message")
    /\ delivered' = [delivered EXCEPT !.rewards = Append(@, message)]
    /\ WithinBounds(world_state')
    /\ UNCHANGED <<policy_vars, current_mission_init, current_mission_record,
                   current_role, listener_vars, commands_stream,
                   commands_connection, mutex, call_vars, policy_kept>>
    /\ NoObservation

onObservation(message) ==
    /\ servers.observations
    /\ mutex = "free"
    /\ world_state' =
          [world_state EXCEPT
              !.observations = ApplyObservationsPolicy(@, message, observations_policy),
              !.number_of_observations_since_last_state = @ + 1]
    /\ WithinBounds(world_state')
    /\ delivered' = [delivered EXCEPT !.observations = Append(@, message)]
    /\ UNCHANGED <<policy_vars, current_mission_init, current_mission_record,
                   current_role, listener_vars, commands_stream,
                   commands_connection, mutex, call_vars, policy_kept>>
    /\ NoObservation

\* history: a kind's policy counts as kept while nothing of that kind has been
\* delivered since the last clear, and then as long as no call changes it
KeptAfter(kept, deliveries, old_policy, new_policy) ==
    deliveries = <<>> \/ (kept /\ new_policy = old_policy)

\* ------------------------------------------- the agent's accessors
\* line 394: the copy that peekWorldState returns
PeekedWorldState_WithoutErrors(ws) == [ws EXCEPT !.errors = <<>>]

PeekedWorldState(ws) == ws

\* lines 390-395
peekWorldState ==
    /\ pc = "idle"
    /\ mutex = "free"
    /\ returned' = PeekedWorldState(world_state)
    /\ result' = "peeked"
    /\ UNCHANGED <<world_state, policy_vars, current_mission_init,
                   current_mission_record, current_role, listener_vars,
                   commands_stream, commands_connection, mutex, call_vars,
                   delivered, policy_kept>>
    /\ sent' = <<>>

\* mutant: has_mission_begun is not restored after the clear
DrainedWorldState_LosesBegun(old_world_state) ==
    [WorldStateClear(old_world_state) EXCEPT
        !.is_mission_running = old_world_state.is_mission_running]

\* lines 401-405: copy, clear, restore the two flags, return the copy
DrainedWorldState(old_world_state) ==
    [WorldStateClear(old_world_state) EXCEPT
        !.is_mission_running = old_world_state.is_mission_running,
        !.has_mission_begun = old_world_state.has_mission_begun]

getWorldState ==
    /\ pc = "idle"
    /\ mutex = "free"
    /\ returned' = world_state
    /\ world_state' = DrainedWorldState(world_state)
    /\ result' = "drained"
    /\ delivered' = NoDeliveries
    /\ policy_kept' = AllKept
    /\ UNCHANGED <<policy_vars, current_mission_init, current_mission_record,
                   current_role, listener_vars, commands_stream,
                   commands_connection, mutex, call_vars>>
    /\ sent' = <<>>

setVideoPolicy(videoPolicy) ==
    /\ pc = "idle"
    /\ video_policy' = videoPolicy
    /\ policy_kept' = [policy_kept EXCEPT !.video = KeptAfter(@, delivered.video, video_policy, videoPolicy)]
    /\ UNCHANGED <<world_state, rewards_policy, observations_policy,
                   current_mission_init, current_mission_record, current_role,
                   listener_vars, commands_stream, commands_connection, mutex,
                   call_vars, delivered>>
    /\ NoObservation

setRewardsPolicy(rewardsPolicy) ==
    /\ pc = "idle"
    /\ rewards_policy' = rewardsPolicy
    /\ policy_kept' = [policy_kept EXCEPT !.rewards = KeptAfter(@, delivered.rewards, rewards_policy, rewardsPolicy)]
    /\ UNCHANGED <<world_state, video_policy, observations_policy,
                   current_mission_init, current_mission_record, current_role,
                   listener_vars, commands_stream, commands_connection, mutex,
                   call_vars, delivered>>
    /\ NoObservation

setObservationsPolicy(observationsPolicy) ==
    /\ pc = "idle"
    /\ observations_policy' = observationsPolicy
    /\ policy_kept' =
          [policy_kept EXCEPT !.observations =
              KeptAfter(@, delivered.observations, observations_policy, observationsPolicy)]
    /\ UNCHANGED <<world_state, video_policy, rewards_policy,
                   current_mission_init, current_mission_record, current_role,
                   listener_vars, commands_stream, commands_connection, mutex,
                   call_vars, delivered>>
    /\ NoObservation

\* ------------------------------------------------ startMission inputs
Roles == (0 - 1)..MaxAgents
Missions ==
    [NumberOfAgents : 1..MaxAgents,
     VideoRequested : {TRUE},
     VideoWidth : {320, 101},
     VideoHeight : {240, 99}]
    \cup [NumberOfAgents : 1..MaxAgents,
          VideoRequested : {FALSE},
          VideoWidth : {0},
          VideoHeight : {0}]
\* a pool is an ordered list of hosts; duplicates are allowed
ClientPools == {[k \in 1..n |-> k] : n \in 0..MaxPool} \cup {<<1, 1>>}
MissionRecordSpecs ==
    {[isRecording |-> FALSE, isRecordingCommands |-> FALSE],
     [isRecording |-> TRUE, isRecordingCommands |-> TRUE]}

\* MissionInitSpec( mission, unique_experiment_id, role ): default settings,
\* no client chosen, no Minecraft server known, client commands port unknown
NewMissionInitSpec(role) ==
    [authoritative |-> FALSE,
     role |-> role,
     ClientAddress |-> 0,
     ClientCommandsPort |-> 0,
     MinecraftServerInformation |-> NoServerInformation]

hasMinecraftServerInformation(mission_init) ==
    mission_init.MinecraftServerInformation # NoServerInformation

\* one request handed to SendStringAndGetShortReply
Request(name, item, index) == [request |-> name, to |-> item, index |-> index]

\* ----------------------------------------------------------- close()
\* lines 614-636, as the values it leaves in the controller (stopRecording
\* acts inside the listeners)
close_ClearsBegun(ws) ==
    [world_state |-> [ws EXCEPT !.is_mission_running = FALSE,
                                !.has_mission_begun = FALSE],
     commands_stream |-> FALSE,
     commands_connection |-> FALSE]

close_KeepsConnection(ws) ==
    [world_state |-> [ws EXCEPT !.is_mission_running = FALSE],
     commands_stream |-> FALSE,
     commands_connection |-> commands_connection]

close(ws) ==
    [world_state |-> [ws EXCEPT !.is_mission_running = FALSE],
     commands_stream |-> FALSE,
     commands_connection |-> FALSE]

\* close() called on its own, between two operations of the agent
Close ==
    /\ pc = "idle"
    /\ mutex = "free"
    /\ world_state' = close(world_state).world_state
    /\ commands_stream' = close(world_state).commands_stream
    /\ commands_connection' = close(world_state).commands_connection
    /\ result' = "closed"
    /\ sent' = <<>>
    /\ returned' = NoSnapshot
    /\ UNCHANGED <<policy_vars, current_mission_init, current_mission_record,
                   current_role, servers, mutex, call_vars, delivered,
                   policy_kept>>

\* the agent's thread leaves startMission: the lock_guard releases the mutex
\* and the locals die
LeaveStartMission(outcome) ==
    /\ result' = outcome
    /\ pc' = "idle"
    /\ mutex' = "free"
    /\ mission' = NoMission
    /\ client_pool' = <<>>
    /\ pool' = <<>>
    /\ i' = 0
    /\ clients_required' = 0
    /\ reservedClients' = <<>>

\* ------------------------------------------------------- startMission
\* lines 141-154: the checks made before the mutex is taken
ValidationError_NoHeightCheck(m, role) ==
    IF role < 0 \/ role >= m.NumberOfAgents THEN "Role is invalid"
    ELSE IF m.VideoRequested /\ m.VideoWidth % 4 # 0
         THEN "Video width must be divisible by 4."
    ELSE "none"

ValidationError(m, role) ==
    IF role < 0 \/ role >= m.NumberOfAgents THEN "Role is invalid"
    ELSE IF m.VideoRequested /\ m.VideoWidth % 4 # 0
         THEN "Video width must be divisible by 4."
    ELSE IF m.VideoRequested /\ m.VideoHeight % 2 # 0
         THEN "Video height must be divisible by 2."
    ELSE "none"

\* lines 158-160: the check made once the mutex is held
MissionAlreadyRunning_Never(ws) == FALSE

MissionAlreadyRunning(ws) == ws.is_mission_running

\* lines 164-186: which search startMission enters after initializeOurServers
FirstSearch(m, role, mission_init) ==
    IF m.NumberOfAgents > 1 /\ role = 0 THEN "reserveClients"
    ELSE IF m.NumberOfAgents > 1 /\ role > 0
            /\ ~hasMinecraftServerInformation(mission_init)
         THEN "findServer"
    ELSE "findClient"

\* lines 198-232
initializeOurServers(m, mission_record, role) ==
    /\ current_mission_init' = NewMissionInitSpec(role)
    /\ current_mission_record' = mission_record
    /\ current_role' = role
    /\ servers' =
          [mission_control |-> TRUE,
           video |-> servers.video \/ m.VideoRequested,
           rewards |-> TRUE,
           observations |-> TRUE]
    /\ commands_stream' = mission_record.isRecordingCommands

\* lines 139-164: from the call to the first search
startMission(m, cp, mission_record, role) ==
    /\ pc = "idle"
    /\ mutex = "free"
    /\ sent' = <<>>
    /\ IF ValidationError(m, role) # "none"
       THEN /\ result' = ValidationError(m, role)
            /\ UNCHANGED <<world_state, current_mission_init, current_mission_record,
                           current_role, listener_vars, commands_stream, mutex,
                           call_vars>>
       ELSE IF MissionAlreadyRunning(world_state)
       THEN /\ result' = "A mission is already running."
            /\ UNCHANGED <<world_state, current_mission_init, current_mission_record,
                           current_role, listener_vars, commands_stream, mutex,
                           call_vars>>
       ELSE /\ initializeOurServers(m, mission_record, role)
            /\ mutex' = "agent"
            /\ pc' = FirstSearch(m, role, NewMissionInitSpec(role))
            /\ mission' = [NumberOfAgents |-> m.NumberOfAgents]
            /\ client_pool' = cp
            /\ pool' = cp
            /\ i' = 0
            /\ clients_required' =
                  IF FirstSearch(m, role, NewMissionInitSpec(role)) = "reserveClients"
                  THEN m.NumberOfAgents ELSE 0
            /\ reservedClients' = <<>>
            /\ result' = "in progress"
            /\ UNCHANGED world_state
    /\ returned' = NoSnapshot
    /\ UNCHANGED <<policy_vars, commands_connection, delivered,
                   policy_kept>>

\* ----------------------------------------------------- reserveClients
\* line 276: a reply counts as a reservation when it begins with the token
ReservationAccepted_ExactToken(r) == r = malmo_reservation_prefix

ReservationAccepted(r) == StartsWith(r, malmo_reservation_prefix)

\* In each search the local std::string reply is assigned by the exchange and
\* read in the same iteration only, so r, the outcome of the exchange, stands
\* for it: a reply, or Unreachable when SendStringAndGetShortReply throws.
\* lines 259-284: one reservation request and what is made of the reply
reserveClientsSend(r) ==
    /\ pc = "reserveClients"
    /\ i < Len(client_pool)
    /\ clients_required > 0
    /\ LET item == client_pool[i + 1]
       IN  /\ sent' = Append(sent, Request("MALMO_REQUEST_CLIENT", item, i))
           /\ i' = i + 1
           /\ IF r = Unreachable
              THEN UNCHANGED <<reservedClients, clients_required>>
              ELSE IF ReservationAccepted(r)
              THEN /\ reservedClients' = Append(reservedClients, item)
                   /\ clients_required' = clients_required - 1
              ELSE UNCHANGED <<reservedClients, clients_required>>
    /\ UNCHANGED <<world_state, policy_vars, current_mission_init,
                   current_mission_record, current_role, listener_vars,
                   commands_stream, commands_connection, mutex, pc, mission,
                   client_pool, pool, result, returned, delivered,
                   policy_kept>>

\* lines 285-288 and 170-177: the loop is over; either the reservations are
\* released, or startMission goes on with the reserved clients as its pool
reserveClientsLoopEnd ==
    /\ pc = "reserveClients"
    /\ i = Len(client_pool) \/ clients_required = 0
    /\ IF clients_required > 0
       THEN /\ pc' = "cancelReservations"
            /\ i' = 0
            /\ UNCHANGED <<pool, mutex, mission, client_pool, clients_required,
                           reservedClients, result>>
       ELSE IF Len(reservedClients) # mission.NumberOfAgents
       THEN LeaveStartMission("There are not enough clients availble in the ClientPool")
       ELSE /\ pool' = reservedClients
            /\ pc' = "findClient"
            /\ i' = 0
            /\ UNCHANGED <<mutex, mission, client_pool, clients_required,
                           reservedClients, result>>
    /\ UNCHANGED <<world_state, policy_vars, current_mission_init,
                   current_mission_record, current_role, listener_vars,
                   commands_stream, commands_connection, sent, returned,
                   delivered, policy_kept>>

\* lines 289-304: one cancellation request; its reply r is only logged
cancelReservationSend(r) ==
    /\ pc = "cancelReservations"
    /\ i < Len(reservedClients)
    /\ sent' = Append(sent, Request("MALMO_CANCEL_REQUEST", reservedClients[i + 1], i))
    /\ i' = i + 1
    /\ UNCHANGED <<world_state, policy_vars, current_mission_init,
                   current_mission_record, current_role, listener_vars,
                   commands_stream, commands_connection, mutex, pc, mission,
                   client_pool, pool, clients_required, reservedClients, result,
                   returned, delivered, policy_kept>>

\* lines 305-307 and 171-175: the empty reservation is returned and
\* startMission throws; close() is not called on this path
cancelReservationsEnd ==
    /\ pc = "cancelReservations"
    /\ i = Len(reservedClients)
    /\ LET returnedClients == <<>>
       IN  /\ Len(returnedClients) # mission.NumberOfAgents
           /\ LeaveStartMission("There are not enough clients availble in the ClientPool")
    /\ UNCHANGED <<world_state, policy_vars, current_mission_init,
                   current_mission_record, current_role, listener_vars,
                   commands_stream, commands_connection, sent, returned,
                   delivered, policy_kept>>

\* --------------------------------------------------------- findServer
\* lines 333-342: what findServer makes of a reply that starts with MALMOS
ParseServerReply_PortFromColon(r) ==
    LET colon == FindFirstOf(r, ":")
        minecraft_server_address ==
            Substr(r, Len(malmo_server_prefix), colon - Len(malmo_server_prefix))
        minecraft_server_port_as_string == Substr(r, colon, Len(r))
        scan == Sscanf(minecraft_server_port_as_string)
    IN  IF colon = npos THEN [malformed |-> TRUE]
        ELSE IF scan.n # 1 THEN [malformed |-> TRUE]
        ELSE [malformed |-> FALSE,
              address |-> minecraft_server_address,
              port |-> scan.value]

ParseServerReply(r) ==
    LET colon == FindFirstOf(r, ":")
        minecraft_server_address ==
            Substr(r, Len(malmo_server_prefix), colon - Len(malmo_server_prefix))
        minecraft_server_port_as_string == Substr(r, colon + 1, Len(r))
        scan == Sscanf(minecraft_server_port_as_string)
    IN  IF colon = npos THEN [malformed |-> TRUE]
        ELSE IF scan.n # 1 THEN [malformed |-> TRUE]
        ELSE [malformed |-> FALSE,
              address |-> minecraft_server_address,
              port |-> scan.value]

\* lines 314-345: one find-server request and what is made of the reply
findServerSend(r) ==
    /\ pc = "findServer"
    /\ i < Len(pool)
    /\ sent' = Append(sent, Request("MALMO_FIND_SERVER", pool[i + 1], i))
    /\ IF r = Unreachable
       THEN /\ i' = i + 1
            /\ UNCHANGED <<current_mission_init, pc, mutex, mission, client_pool,
                           pool, clients_required, reservedClients, result>>
       ELSE IF ~StartsWith(r, malmo_server_prefix)
       THEN /\ i' = i + 1
            /\ UNCHANGED <<current_mission_init, pc, mutex, mission, client_pool,
                           pool, clients_required, reservedClients, result>>
       ELSE IF ParseServerReply(r).malformed
       THEN /\ LeaveStartMission("Received malformed reply")
            /\ UNCHANGED current_mission_init
       ELSE /\ current_mission_init' =
                  [current_mission_init EXCEPT
                      !.MinecraftServerInformation =
                          [address |-> ParseServerReply(r).address,
                           port |-> ParseServerReply(r).port]]
            /\ pc' = "findClient"
            /\ i' = 0
            /\ UNCHANGED <<mutex, mission, client_pool, pool, clients_required,
                           reservedClients, result>>
    /\ UNCHANGED <<world_state, policy_vars, current_mission_record, current_role,
                   listener_vars, commands_stream, commands_connection, returned,
                   delivered, policy_kept>>

\* lines 347-348: the pool is exhausted
findServerFail ==
    /\ pc = "findServer"
    /\ i = Len(pool)
    /\ world_state' = close(world_state).world_state
    /\ commands_stream' = close(world_state).commands_stream
    /\ commands_connection' = close(world_state).commands_connection
    /\ LeaveStartMission("Failed to find the server for this mission")
    /\ UNCHANGED <<policy_vars, current_mission_init, current_mission_record,
                   current_role, servers, sent, returned, delivered, policy_kept>>

\* --------------------------------------------------------- findClient
\* line 361: the pool entry probed in iteration i
ClientIndex_IgnoresRole(k, role, num_clients) == k % num_clients

ClientIndex(k, role, num_clients) == (k + role) % num_clients

\* line 382
MissionAccepted(r) == r = malmo_mission_accepted

\* line 188: what startMission does to the world state once findClient has
\* returned
WorldStateOnSuccess_NotCleared(ws) == ws

WorldStateOnSuccess(ws) == WorldStateClear(ws)

\* lines 359-384 and 188-195: the mission-init document goes to one host; on
\* acceptance findClient returns and startMission clears the world state
findClientSend(r) ==
    /\ pc = "findClient"
    /\ i < Len(pool)
    /\ LET num_clients == Len(pool)
           index == ClientIndex(i, current_role, num_clients)
           item == pool[index + 1]
       IN  /\ current_mission_init' = [current_mission_init EXCEPT !.ClientAddress = item]
           /\ sent' = Append(sent, Request("MissionInit", item, index))
    /\ IF r # Unreachable /\ MissionAccepted(r)
       THEN /\ world_state' = WorldStateOnSuccess(world_state)
            /\ delivered' = NoDeliveries
            /\ policy_kept' = AllKept
            /\ LeaveStartMission("ok")
       ELSE /\ i' = i + 1
            /\ UNCHANGED <<world_state, delivered, policy_kept, pc, mutex, mission,
                           client_pool, pool, clients_required, reservedClients,
                           result>>
    /\ UNCHANGED <<policy_vars, current_mission_record, current_role,
                   listener_vars, commands_stream, commands_connection, returned>>

\* lines 386-387: the pool is exhausted
findClientFail ==
    /\ pc = "findClient"
    /\ i = Len(pool)
    /\ world_state' = close(world_state).world_state
    /\ commands_stream' = close(world_state).commands_stream
    /\ commands_connection' = close(world_state).commands_connection
    /\ LeaveStartMission("Failed to find an available client for this mission")
    /\ UNCHANGED <<policy_vars, current_mission_init, current_mission_record,
                   current_role, servers, sent, returned, delivered, policy_kept>>

\* ------------------------------------------- mission-control channel
\* a document received on the mission-control channel: whether read_xml
\* accepts it, its root element, whether it validates against its schema,
\* and what the typed value exposes
McMessage(xml, root, valid, port, status, present, value, timestamp) ==
    [xml |-> xml, root |-> root, valid |-> valid, ClientCommandsPort |-> port,
     Status |-> status, RewardPresent |-> present, Reward |-> value,
     timestamp |-> timestamp]

MissionResults == {"ENDED", "PLAYER_DIED", "AGENT_QUIT"}

McMessages ==
    {McMessage("malformed", "", FALSE, 0, "", FALSE, 0, 1),
     McMessage("empty", "", FALSE, 0, "", FALSE, 0, 1),
     McMessage("ok", "MissionInit", FALSE, 0, "", FALSE, 0, 1),
     McMessage("ok", "MissionEnded", FALSE, 0, "", FALSE, 0, 1),
     McMessage("ok", "ping", TRUE, 0, "", FALSE, 0, 1),
     McMessage("ok", "MissionStarted", TRUE, 0, "", FALSE, 0, 1)}
    \cup {McMessage("ok", "MissionInit", TRUE, port, "", FALSE, 0, 1) : port \in 0..1}
    \cup {McMessage("ok", "MissionEnded", TRUE, 0, status, FALSE, 0, 1) :
            status \in MissionResults}
    \cup {McMessage("ok", "MissionEnded", TRUE, 0, status, TRUE, 2, 1) :
            status \in MissionResults}

\* MissionInitSpec( xml.text, validate ): the record as the host states it
ParsedMissionInitSpec(xml) ==
    [authoritative |-> TRUE,
     role |-> 0,
     ClientAddress |-> 1,
     ClientCommandsPort |-> xml.ClientCommandsPort,
     MinecraftServerInformation |-> NoServerInformation]

\* line 522
AcceptsMissionInit_OnlyBegun(ws, root_node_name) ==
    ws.has_mission_begun /\ ~ws.is_mission_running /\ root_node_name = "MissionInit"

AcceptsMissionInit(ws, root_node_name) ==
    ~ws.is_mission_running /\ root_node_name = "MissionInit"

\* lines 554-567
AbnormalStatus_OnlyEnded(status) == status # "ENDED"

AbnormalStatus(status) == status \notin {"ENDED", "PLAYER_DIED"}

\* lines 554-576: the WorldState after the status and the final reward of a
\* valid MissionEnded have been dealt with, before close()
MissionEndedWorldState(ws, xml) ==
    LET ws1 == IF AbnormalStatus(xml.Status)
               THEN PushError(ws, "Mission ended abnormally") ELSE ws
    IN  IF ws1.is_mission_running /\ xml.RewardPresent
        THEN processReceivedReward(ws1, [timestamp |-> xml.timestamp, value |-> xml.Reward])
        ELSE ws1

\* line 599
PushMessage_Dropped(ws, xml) == ws

PushMessage(ws, xml) ==
    [ws EXCEPT !.mission_control_messages = Append(@, xml)]

\* lines 602-612: whether openCommandsConnection throws
OpenCommandsConnectionThrows(mission_init, connects) ==
    mission_init.ClientCommandsPort = 0 \/ ~connects

\* lines 522-537: the handler accepts the MissionInit, sets the flags, and
\* openCommandsConnection throws std::runtime_error, which no catch clause of
\* the handler matches
MissionInitThrows(ws, xml, connects) ==
    /\ xml.xml = "ok"
    /\ AcceptsMissionInit(ws, xml.root)
    /\ xml.valid
    /\ OpenCommandsConnectionThrows(ParsedMissionInitSpec(xml), connects)

\* what the handler leaves alone on the paths that only add an error
OnlyWorldState ==
    UNCHANGED <<current_mission_init, commands_stream, commands_connection,
                delivered>>

\* lines 497-600; connects: whether ClientConnection::create succeeds
onMissionControlMessage(xml, connects) ==
    /\ servers.mission_control
    /\ mutex = "free"
    /\ IF xml.xml = "malformed"
       THEN /\ world_state' =
                  PushError(world_state, "Error parsing mission control message as XML")
            /\ OnlyWorldState
       ELSE IF xml.xml = "empty"
       THEN /\ world_state' =
                  PushError(world_state, "Empty XML string in mission control message")
            /\ OnlyWorldState
       ELSE IF AcceptsMissionInit(world_state, xml.root)
       THEN IF ~xml.valid
            THEN /\ world_state' =
                       PushError(world_state, "Error parsing MissionInit message XML")
                 /\ OnlyWorldState
            ELSE /\ current_mission_init' = ParsedMissionInitSpec(xml)
                 /\ IF OpenCommandsConnectionThrows(ParsedMissionInitSpec(xml), connects)
                    THEN /\ world_state' =
                               [world_state EXCEPT !.is_mission_running = TRUE,
                                                   !.has_mission_begun = TRUE]
                         /\ UNCHANGED commands_connection
                    ELSE /\ world_state' =
                               PushMessage([world_state EXCEPT
                                               !.is_mission_running = TRUE,
                                               !.has_mission_begun = TRUE], xml)
                         /\ commands_connection' = TRUE
                 /\ UNCHANGED <<commands_stream, delivered>>
       ELSE IF xml.root = "MissionEnded"
       THEN IF ~xml.valid
            THEN /\ world_state' =
                       PushError(world_state, "Error parsing MissionEnded message XML")
                 /\ OnlyWorldState
            ELSE LET ended == MissionEndedWorldState(world_state, xml)
                     closed == close(ended)
                 IN  /\ world_state' = PushMessage(closed.world_state, xml)
                     /\ commands_stream' = closed.commands_stream
                     /\ commands_connection' = closed.commands_connection
                     /\ delivered' =
                           IF world_state.is_mission_running /\ xml.RewardPresent
                           THEN [delivered EXCEPT !.rewards =
                                    Append(@, [timestamp |-> xml.timestamp,
                                               wellformed |-> TRUE,
                                               value |-> xml.Reward])]
                           ELSE delivered
                     /\ UNCHANGED <<current_mission_init>>
       ELSE IF xml.root = "ping"
       THEN /\ world_state' = PushMessage(world_state, xml)
            /\ OnlyWorldState
       ELSE /\ world_state' =
                  PushError(world_state,
                            "Unknown mission control message root node or at wrong time")
            /\ OnlyWorldState
    /\ WithinBounds(world_state')
    /\ sent' = <<>>
    /\ returned' = NoSnapshot
    /\ result' = IF MissionInitThrows(world_state, xml, connects)
                 THEN "exception left onMissionControlMessage" ELSE "none"
    /\ UNCHANGED <<policy_vars, current_mission_record, current_role, servers,
                   mutex, call_vars, policy_kept>>

\* --------------------------------------------------------- sendCommand
\* lines 719-726: no commands connection
NotOpenError_Silent(ws) == ws

NotOpenError(ws) ==
    PushError(ws, "AgentHost::sendCommand : commands connection is not open")

\* lines 715-744; transmitted: whether commands_connection->send succeeds
sendCommand(transmitted) ==
    /\ pc = "idle"
    /\ mutex = "free"
    /\ IF ~commands_connection
       THEN /\ world_state' = NotOpenError(world_state)
            /\ result' = "command not sent"
       ELSE IF ~transmitted
       THEN /\ world_state' =
                  PushError(world_state, "AgentHost::sendCommand : failed to send command")
            /\ result' = "command send failed"
       ELSE /\ result' = "command sent"
            /\ UNCHANGED world_state
    /\ WithinBounds(world_state')
    /\ UNCHANGED <<policy_vars, current_mission_init, current_mission_record,
                   current_role, listener_vars, commands_stream,
                   commands_connection, mutex, call_vars, delivered, policy_kept>>
    /\ sent' = <<>>
    /\ returned' = NoSnapshot

\* ------------------------------------------------- the specification
\* lines 54-73: the state the constructor leaves
Init ==
    /\ world_state = EmptyWorldState
    /\ video_policy = "LATEST_FRAME_ONLY"
    /\ rewards_policy = "SUM_REWARDS"
    /\ observations_policy = "LATEST_OBSERVATION_ONLY"
    /\ current_mission_init = NoMissionInit
    /\ current_mission_record = NoMissionRecord
    /\ current_role = 0
    /\ servers = [mission_control |-> FALSE, video |-> FALSE, rewards |-> FALSE,
                  observations |-> FALSE]
    /\ commands_stream = FALSE
    /\ commands_connection = FALSE
    /\ mutex = "free"
    /\ pc = "idle"
    /\ mission = NoMission
    /\ client_pool = <<>>
    /\ pool = <<>>
    /\ i = 0
    /\ clients_required = 0
    /\ reservedClients = <<>>
    /\ sent = <<>>
    /\ result = "none"
    /\ returned = NoSnapshot
    /\ delivered = NoDeliveries
    /\ policy_kept = AllKept

\* a call that fails before line 162 reads neither its pool nor its recording
\* spec, so one value of each stands for all
FailsEarly(m, role) ==
    ValidationError(m, role) # "none" \/ world_state.is_mission_running
PoolsRead(m, role) == IF FailsEarly(m, role) THEN {<<>>} ELSE ClientPools
NotRecording == [isRecording |-> FALSE, isRecordingCommands |-> FALSE]
RecordSpecsRead(m, role, specs) == IF FailsEarly(m, role) THEN {NotRecording} ELSE specs

\* the three searches of startMission, step by step
Searches ==
    \/ \E r \in ReserveReplies \cup {Unreachable} : reserveClientsSend(r)
    \/ reserveClientsLoopEnd
    \/ \E r \in ReserveReplies \cup {Unreachable} : cancelReservationSend(r)
    \/ cancelReservationsEnd
    \/ \E r \in ServerReplies \cup {Unreachable} : findServerSend(r)
    \/ findServerFail
    \/ \E r \in ClientReplies \cup {Unreachable} : findClientSend(r)
    \/ findClientFail

\* Spec: the mission lifecycle of a single-agent mission on a one-host pool,
\* with every kind of document on the mission-control channel, commands and
\* both accessors.
SingleAgentMission ==
    [NumberOfAgents |-> 1, VideoRequested |-> FALSE, VideoWidth |-> 0, VideoHeight |-> 0]

Next ==
    \/ \E mr \in MissionRecordSpecs : startMission(SingleAgentMission, <<1>>, mr, 0)
    \/ \E r \in ClientReplies \cup {Unreachable} : findClientSend(r)
    \/ findClientFail
    \/ \E xml \in McMessages, connects \in BOOLEAN : onMissionControlMessage(xml, connects)
    \/ \E transmitted \in BOOLEAN : sendCommand(transmitted)
    \/ peekWorldState
    \/ getWorldState
    \/ Close

Spec == Init /\ [][Next]_vars

\* SpecNegotiation: startMission with every mission, pool and role within the
\* bounds, against hosts that answer anything; between two calls a mission
\* can be confirmed and ended by the host and the agent can drain.
MissionInitConfirmation == McMessage("ok", "MissionInit", TRUE, 1, "", FALSE, 0, 1)
MissionEndedWithReward == McMessage("ok", "MissionEnded", TRUE, 0, "ENDED", TRUE, 2, 1)

NextNegotiation ==
    \/ \E m \in Missions, role \in Roles :
          \E cp \in PoolsRead(m, role), mr \in RecordSpecsRead(m, role, MissionRecordSpecs) :
              startMission(m, cp, mr, role)
    \/ Searches
    \/ \E xml \in {MissionInitConfirmation, MissionEndedWithReward} :
          onMissionControlMessage(xml, TRUE)
    \/ getWorldState

SpecNegotiation == Init /\ [][NextNegotiation]_vars

\* SpecAggregator: the World State Aggregator between two mission starts.  It
\* starts where a single-agent mission with video has been negotiated on a
\* one-host pool (all four listeners exist): before the host's confirmation,
\* after it, or after the mission has ended and the agent has drained.
NegotiatedMissionInit == [NewMissionInitSpec(0) EXCEPT !.ClientAddress = 1]

InitAggregator ==
    /\ \/ /\ world_state = EmptyWorldState
          /\ current_mission_init = NegotiatedMissionInit
          /\ commands_connection = FALSE
       \/ /\ world_state =
                [EmptyWorldState EXCEPT
                    !.is_mission_running = TRUE,
                    !.has_mission_begun = TRUE,
                    !.mission_control_messages = <<MissionInitConfirmation>>]
          /\ current_mission_init = ParsedMissionInitSpec(MissionInitConfirmation)
          /\ commands_connection = TRUE
       \/ /\ world_state = [EmptyWorldState EXCEPT !.has_mission_begun = TRUE]
          /\ current_mission_init = ParsedMissionInitSpec(MissionInitConfirmation)
          /\ commands_connection = FALSE
    /\ video_policy = "LATEST_FRAME_ONLY"
    /\ rewards_policy = "SUM_REWARDS"
    /\ observations_policy = "LATEST_OBSERVATION_ONLY"
    /\ current_mission_record = NotRecording
    /\ current_role = 0
    /\ servers = [mission_control |-> TRUE, video |-> TRUE, rewards |-> TRUE,
                  observations |-> TRUE]
    /\ commands_stream = FALSE
    /\ mutex = "free"
    /\ pc = "idle"
    /\ mission = NoMission
    /\ client_pool = <<>>
    /\ pool = <<>>
    /\ i = 0
    /\ clients_required = 0
    /\ reservedClients = <<>>
    /\ sent = <<>>
    /\ result = "none"
    /\ returned = NoSnapshot
    /\ delivered = NoDeliveries
    /\ policy_kept = AllKept

NextAggregator ==
    \/ \E message \in VideoFrames : onVideo(message)
    \/ \E message \in RewardMessages : onReward(message)
    \/ \E message \in Observations : onObservation(message)
    \/ \E p \in VideoPolicies : setVideoPolicy(p)
    \/ \E p \in RewardsPolicies : setRewardsPolicy(p)
    \/ \E p \in ObservationsPolicies : setObservationsPolicy(p)
    \/ getWorldState

SpecAggregator == InitAggregator /\ [][NextAggregator]_vars

\* --------------------------------------------- accessors without lock
\* lines 746-754: no lock_guard; the shared pointer is returned as it is,
\* whatever another thread is doing under the mutex
getMissionInit ==
    /\ returned' = [mission_init |-> current_mission_init]
    /\ UNCHANGED <<world_state, policy_vars, current_mission_init,
                   current_mission_record, current_role, listener_vars,
                   commands_stream, commands_connection, mutex, call_vars,
                   sent, result, delivered, policy_kept>>

\* lines 408-411: no lock_guard
getRecordingTemporaryDirectory ==
    /\ returned' =
          [directory |->
              IF current_mission_record # NoMissionRecord
                 /\ current_mission_record.isRecording
              THEN "temporary directory" ELSE ""]
    /\ UNCHANGED <<world_state, policy_vars, current_mission_init,
                   current_mission_record, current_role, listener_vars,
                   commands_stream, commands_connection, mutex, call_vars,
                   sent, result, delivered, policy_kept>>

\* SpecAccessors: a single-agent mission negotiated on a two-host pool,
\* confirmed and ended by the host, with the two accessors called from
\* another thread of the agent at any moment.
NextAccessors ==
    \/ \E mr \in MissionRecordSpecs : startMission(SingleAgentMission, <<1, 2>>, mr, 0)
    \/ \E r \in ClientReplies \cup {Unreachable} : findClientSend(r)
    \/ findClientFail
    \/ \E xml \in {MissionInitConfirmation, MissionEndedWithReward} :
          onMissionControlMessage(xml, TRUE)
    \/ getWorldState
    \/ getMissionInit
    \/ getRecordingTemporaryDirectory

SpecAccessors == Init /\ [][NextAccessors]_vars

\* SpecArguments: startMission with every mission and role within the
\* bounds, valid or not, on a one-host pool; between two calls a mission can
\* be confirmed and ended by the host and the agent can drain.
NextArguments ==
    \/ \E m \in Missions, role \in Roles :
          \E mr \in RecordSpecsRead(m, role, MissionRecordSpecs) :
              startMission(m, <<1>>, mr, role)
    \/ Searches
    \/ \E xml \in {MissionInitConfirmation, MissionEndedWithReward} :
          onMissionControlMessage(xml, TRUE)
    \/ getWorldState

SpecArguments == Init /\ [][NextArguments]_vars

\* =====================================================================
\* Properties
\* =====================================================================
Last(seq) == seq[Len(seq)]

AllSequencesEmpty(ws) ==
    /\ ws.mission_control_messages = <<>>
    /\ ws.observations = <<>>
    /\ ws.rewards = <<>>
    /\ ws.video_frames = <<>>
    /\ ws.errors = <<>>

AllCountersZero(ws) ==
    /\ ws.number_of_observations_since_last_state = 0
    /\ ws.number_of_rewards_since_last_state = 0
    /\ ws.number_of_video_frames_since_last_state = 0

SameFlags(ws1, ws2) ==
    /\ ws1.is_mission_running = ws2.is_mission_running
    /\ ws1.has_mission_begun = ws2.has_mission_begun

\* the rewards among the reward messages received, as the policy was given them
IsWellFormed(message) == message.wellformed
RECURSIVE ParsedRewards(_)
ParsedRewards(messages) ==
    IF messages = <<>> THEN <<>>
    ELSE IF Head(messages).wellformed
         THEN <<createFromSimpleString(Head(messages))>> \o ParsedRewards(Tail(messages))
    ELSE ParsedRewards(Tail(messages))

RECURSIVE SumOfValues(_)
SumOfValues(rewards) ==
    IF rewards = <<>> THEN 0 ELSE Head(rewards).value + SumOfValues(Tail(rewards))

\* C2: getWorldState returns the snapshot as it was before the call and leaves
\* a snapshot with every sequence empty and every counter zero and the two
\* flags as they were; a second getWorldState right after the first returns an
\* all-empty, all-zero snapshot with the same two flags.
C2_GetWorldStateDrains ==
    [][result' = "drained" =>
          /\ returned' = world_state
          /\ AllSequencesEmpty(world_state')
          /\ AllCountersZero(world_state')
          /\ SameFlags(world_state', world_state)
          /\ result = "drained" =>
                /\ AllSequencesEmpty(returned')
                /\ AllCountersZero(returned')
                /\ SameFlags(returned', returned)]_vars

C2_Witness ==
    /\ result = "drained"
    /\ returned.is_mission_running
    /\ returned.video_frames # <<>>
    /\ returned.rewards # <<>>
    /\ returned.number_of_rewards_since_last_state > 0
    /\ world_state.is_mission_running

\* C3: for each kind whose policy is LatestOnly and has been kept, after N >= 1
\* well-formed deliveries since the last clear exactly one item is retained,
\* it is the last one delivered, and the kind's counter is N.
C3_LatestOnly ==
    /\ (video_policy = "LATEST_FRAME_ONLY" /\ policy_kept.video
            /\ delivered.video # <<>>) =>
          /\ world_state.video_frames = <<Last(delivered.video)>>
          /\ world_state.number_of_video_frames_since_last_state = Len(delivered.video)
    /\ (rewards_policy = "LATEST_REWARD_ONLY" /\ policy_kept.rewards
            /\ ParsedRewards(delivered.rewards) # <<>>) =>
          /\ world_state.rewards = <<Last(ParsedRewards(delivered.rewards))>>
          /\ world_state.number_of_rewards_since_last_state
                = Len(ParsedRewards(delivered.rewards))
    /\ (observations_policy = "LATEST_OBSERVATION_ONLY" /\ policy_kept.observations
            /\ delivered.observations # <<>>) =>
          /\ world_state.observations = <<Last(delivered.observations)>>
          /\ world_state.number_of_observations_since_last_state
                = Len(delivered.observations)

C3_Witness ==
    /\ video_policy = "LATEST_FRAME_ONLY"
    /\ policy_kept.video
    /\ Len(delivered.video) = 2
    /\ delivered.video[1] # delivered.video[2]
    /\ rewards_policy = "LATEST_REWARD_ONLY"
    /\ policy_kept.rewards
    /\ Len(ParsedRewards(delivered.rewards)) = 1

\* C4: with RewardsPolicy Sum kept, after rewards r1..rN (N >= 1) since the
\* last clear exactly one reward is retained, its value is r1 + ... + rN, its
\* timestamp is rN's, and the reward counter is N.
C4_SumRewards ==
    (rewards_policy = "SUM_REWARDS" /\ policy_kept.rewards
        /\ ParsedRewards(delivered.rewards) # <<>>) =>
       /\ Len(world_state.rewards) = 1
       /\ world_state.rewards[1].value = SumOfValues(ParsedRewards(delivered.rewards))
       /\ world_state.rewards[1].timestamp
             = Last(ParsedRewards(delivered.rewards)).timestamp
       /\ world_state.number_of_rewards_since_last_state
             = Len(ParsedRewards(delivered.rewards))

C4_Witness ==
    /\ rewards_policy = "SUM_REWARDS"
    /\ policy_kept.rewards
    /\ Len(ParsedRewards(delivered.rewards)) = 3
    /\ delivered.rewards[1].timestamp # Last(delivered.rewards).timestamp
    /\ delivered.rewards[1].value # delivered.rewards[2].value

\* C5, as claimed: for each kind whose policy is KeepAll and has been kept,
\* after N deliveries exactly N items are retained, in delivery order.
C5_KeepAllEveryDelivery ==
    /\ (video_policy = "KEEP_ALL_FRAMES" /\ policy_kept.video) =>
          world_state.video_frames = delivered.video
    /\ (rewards_policy = "KEEP_ALL_REWARDS" /\ policy_kept.rewards) =>
          /\ Len(world_state.rewards) = Len(delivered.rewards)
          /\ world_state.rewards = ParsedRewards(delivered.rewards)
    /\ (observations_policy = "KEEP_ALL_OBSERVATIONS" /\ policy_kept.observations) =>
          world_state.observations = delivered.observations

\* C5, amended: for each kind whose policy is KeepAll and has been kept, the
\* retained items are the well-formed deliveries since the last clear, in
\* delivery order (a reward string that does not parse retains nothing).
C5_KeepAllWellFormed ==
    /\ (video_policy = "KEEP_ALL_FRAMES" /\ policy_kept.video) =>
          world_state.video_frames = delivered.video
    /\ (rewards_policy = "KEEP_ALL_REWARDS" /\ policy_kept.rewards) =>
          world_state.rewards = ParsedRewards(delivered.rewards)
    /\ (observations_policy = "KEEP_ALL_OBSERVATIONS" /\ policy_kept.observations) =>
          world_state.observations = delivered.observations

C5_Witness ==
    /\ observations_policy = "KEEP_ALL_OBSERVATIONS"
    /\ policy_kept.observations
    /\ Len(delivered.observations) = 2
    /\ delivered.observations[1] # delivered.observations[2]
    /\ rewards_policy = "KEEP_ALL_REWARDS"
    /\ policy_kept.rewards
    /\ Len(delivered.rewards) = 1
    /\ ~delivered.rewards[1].wellformed

\* ------------------------------------------------ startMission claims
\* the requests of one kind among those sent by the call, in sending order
ProbesOf(name) == SelectSeq(sent, LAMBDA q : q.request = name)

ArgumentsValid(m, role) ==
    /\ role >= 0
    /\ role < m.NumberOfAgents
    /\ m.VideoRequested => (m.VideoWidth % 4 = 0 /\ m.VideoHeight % 2 = 0)

ArgumentErrors ==
    {"Role is invalid", "Video width must be divisible by 4.",
     "Video height must be divisible by 2."}

\* what C1 says a refused call leaves alone: world state, negotiation record,
\* recording spec, role index, listeners, command channel; and nothing is sent
LeftAsBefore ==
    /\ UNCHANGED <<world_state, current_mission_init, current_mission_record,
                   current_role, servers, commands_stream, commands_connection>>
    /\ sent' = <<>>
    /\ pc' = "idle"

\* C1, as claimed: every startMission called while is_mission_running is true
\* fails with 'already running', changes nothing and sends no probe.
C1_AlwaysAlreadyRunning ==
    [][world_state.is_mission_running =>
          \A m \in Missions, role \in Roles :
              \A cp \in PoolsRead(m, role), mr \in RecordSpecsRead(m, role, MissionRecordSpecs) :
                  startMission(m, cp, mr, role) =>
                  /\ result' = "A mission is already running."
                  /\ LeftAsBefore]_vars

\* C1, amended: a startMission called while is_mission_running is true fails,
\* changes nothing and sends no probe; the failure is 'already running' when
\* the role and the video dimensions are valid, and the role or video
\* dimension failure otherwise.
C1_RefusedWhileRunning ==
    [][world_state.is_mission_running =>
          \A m \in Missions, role \in Roles :
              \A cp \in PoolsRead(m, role), mr \in RecordSpecsRead(m, role, MissionRecordSpecs) :
                  startMission(m, cp, mr, role) =>
                  /\ IF ArgumentsValid(m, role)
                     THEN result' = "A mission is already running."
                     ELSE result' \in ArgumentErrors
                  /\ LeftAsBefore]_vars

C1_Witness ==
    /\ result = "A mission is already running."
    /\ world_state.is_mission_running
    /\ commands_connection
    /\ world_state.mission_control_messages # <<>>
    /\ sent = <<>>

\* C6: each findClient probe goes to pool entry (role + k) mod n, k counting
\* the probes already made by this search, so no entry is probed twice; an
\* unreachable host or a reply other than exactly MALMOOK moves on to the
\* next entry; a reply exactly MALMOOK ends the call successfully.
C6_FindClientOrder ==
    [][\A r \in ClientReplies \cup {Unreachable} :
          findClientSend(r) =>
              LET n == Len(pool)
                  k == Len(ProbesOf("MissionInit"))
                  index == (current_role + k) % n
              IN  /\ n > 0
                  /\ k < n
                  /\ sent' = Append(sent, Request("MissionInit", pool[index + 1], index))
                  /\ \A j \in 1..k : ProbesOf("MissionInit")[j].index = (current_role + j - 1) % n
                  /\ \A j \in 1..k : ProbesOf("MissionInit")[j].index # index
                  /\ IF r = <<"M", "A", "L", "M", "O", "O", "K">>
                     THEN pc' = "idle" /\ result' = "ok"
                     ELSE pc' = "findClient" /\ result' = "in progress"]_vars

C6_Witness ==
    /\ pc = "findClient"
    /\ current_role = 1
    /\ Len(pool) = 3
    /\ Len(ProbesOf("MissionInit")) = 3
    /\ ProbesOf("MissionInit")[1].index = 1
    /\ ProbesOf("MissionInit")[2].index = 2
    /\ ProbesOf("MissionInit")[3].index = 0

\* C7: reservation requests go out in pool order and only while fewer than
\* count hosts have accepted; a host is reserved exactly when its reply
\* begins with MALMOOK; when the pool is exhausted first, a cancellation goes
\* to each reserved host in turn and to no other, nothing is reserved, and
\* startMission fails with the not-enough-clients error.
C7_Reserve ==
    [][/\ \A r \in ReserveReplies \cup {Unreachable} :
             reserveClientsSend(r) =>
                 LET k == Len(ProbesOf("MALMO_REQUEST_CLIENT"))
                 IN  /\ Len(reservedClients) < mission.NumberOfAgents
                     /\ sent' = Append(sent, Request("MALMO_REQUEST_CLIENT", client_pool[k + 1], k))
                     /\ reservedClients' =
                           IF r # Unreachable /\ StartsWith(r, <<"M", "A", "L", "M", "O", "O", "K">>)
                           THEN Append(reservedClients, client_pool[k + 1])
                           ELSE reservedClients
       /\ reserveClientsLoopEnd =>
             IF Len(reservedClients) = mission.NumberOfAgents
             THEN pc' = "findClient" /\ pool' = reservedClients /\ sent' = sent
             ELSE /\ Len(ProbesOf("MALMO_REQUEST_CLIENT")) = Len(client_pool)
                  /\ pc' = "cancelReservations"
       /\ \A r \in ReserveReplies \cup {Unreachable} :
             cancelReservationSend(r) =>
                 LET k == Len(ProbesOf("MALMO_CANCEL_REQUEST"))
                 IN  sent' = Append(sent, Request("MALMO_CANCEL_REQUEST", reservedClients[k + 1], k))
       /\ cancelReservationsEnd =>
             /\ Len(ProbesOf("MALMO_CANCEL_REQUEST")) = Len(reservedClients)
             /\ \A k \in 1..Len(reservedClients) :
                   ProbesOf("MALMO_CANCEL_REQUEST")[k].to = reservedClients[k]
             /\ reservedClients' = <<>>
             /\ pc' = "idle"
             /\ result' = "There are not enough clients availble in the ClientPool"
             /\ ProbesOf("MissionInit") = <<>>]_vars

C7_Witness ==
    /\ result = "There are not enough clients availble in the ClientPool"
    /\ Len(ProbesOf("MALMO_REQUEST_CLIENT")) = 3
    /\ Len(ProbesOf("MALMO_CANCEL_REQUEST")) = 1
    /\ ProbesOf("MALMO_CANCEL_REQUEST")[1].to = 2

\* what each find-server probe does: it goes to the next pool entry; an
\* unreachable host or a reply that does not start with MALMOS moves on; a
\* well-formed reply writes its address and port into the negotiation record
\* and ends the search
FindServerProbes ==
    \A r \in ServerReplies \cup {Unreachable} :
        findServerSend(r) =>
            LET k == Len(ProbesOf("MALMO_FIND_SERVER"))
            IN  /\ sent' = Append(sent, Request("MALMO_FIND_SERVER", pool[k + 1], k))
                /\ r \in {Unreachable, ReplyError} =>
                      pc' = "findServer" /\ UNCHANGED current_mission_init
                /\ r = ReplyServerG =>
                      /\ pc' = "findClient"
                      /\ current_mission_init'.MinecraftServerInformation =
                            [address |-> <<"g">>, port |-> 8]
                /\ r = ReplyServerH =>
                      /\ pc' = "findClient"
                      /\ current_mission_init'.MinecraftServerInformation =
                            [address |-> <<"h">>, port |-> 7]

ServerNotFound ==
    /\ result' = "Failed to find the server for this mission"
    /\ ~world_state'.is_mission_running
    /\ ~commands_connection'

\* C8, as claimed: find-server probes go out in pool order, the first
\* well-formed MALMOS reply is written into the negotiation record and ends
\* the search, and whenever the search ends the call without such a reply it
\* is with server-not-found after close().
C8_ServerNotFoundOtherwise ==
    [][/\ FindServerProbes
       /\ (pc = "findServer" /\ pc' = "idle") => ServerNotFound]_vars

\* C8, amended: find-server probes go out in pool order, the first
\* well-formed MALMOS reply is written into the negotiation record and ends
\* the search; a MALMOS reply with no ':' or no number after it ends the call
\* at once with the malformed-reply error; when every host has been probed
\* without a MALMOS reply the call fails with server-not-found after close().
C8_FindServer ==
    [][/\ FindServerProbes
       /\ \A r \in {ReplyServerNoColon, ReplyServerBadPort} :
             findServerSend(r) =>
                 /\ pc' = "idle"
                 /\ result' = "Received malformed reply"
                 /\ UNCHANGED current_mission_init
       /\ findServerFail =>
             /\ Len(ProbesOf("MALMO_FIND_SERVER")) = Len(pool)
             /\ ServerNotFound
       /\ (pc = "findServer" /\ pc' = "idle") =>
             \/ findServerFail
             \/ \E r \in {ReplyServerNoColon, ReplyServerBadPort} : findServerSend(r)]_vars

C8_Witness ==
    /\ pc = "findClient"
    /\ current_role = 1
    /\ Len(pool) = 3
    /\ Len(ProbesOf("MALMO_FIND_SERVER")) = 2
    /\ current_mission_init.MinecraftServerInformation = [address |-> <<"h">>, port |-> 7]

\* C9: when startMission has returned successfully both flags are false and
\* every sequence and counter of the world state is empty or zero; and
\* is_mission_running goes from false to true only in a step of the
\* mission-control handler on a MissionInit document.
C9_NotRunningUntilMissionInit ==
    /\ [](result = "ok" =>
             /\ ~world_state.is_mission_running
             /\ ~world_state.has_mission_begun
             /\ AllSequencesEmpty(world_state)
             /\ AllCountersZero(world_state))
    /\ [][(~world_state.is_mission_running /\ world_state'.is_mission_running) =>
             \E xml \in McMessages, connects \in BOOLEAN :
                 /\ xml.root = "MissionInit"
                 /\ onMissionControlMessage(xml, connects)]_vars

C9_Witness ==
    /\ result = "ok"
    /\ current_role = 1
    /\ Len(ProbesOf("MissionInit")) = 2
    /\ pc = "idle"

\* C10, as claimed: a well-formed MissionInit received while is_mission_running
\* is false replaces the negotiation record, sets both flags and opens the
\* command channel; received while is_mission_running is true it changes
\* neither the record nor the flags nor the command channel and adds one
\* error entry.
C10_MissionInitAccepted ==
    [][\A xml \in McMessages, connects \in BOOLEAN :
          (/\ xml.xml = "ok"
           /\ xml.root = "MissionInit"
           /\ xml.valid
           /\ onMissionControlMessage(xml, connects)) =>
              IF ~world_state.is_mission_running
              THEN /\ current_mission_init' = ParsedMissionInitSpec(xml)
                   /\ world_state'.is_mission_running
                   /\ world_state'.has_mission_begun
                   /\ commands_connection'
              ELSE /\ UNCHANGED <<current_mission_init, commands_connection>>
                   /\ SameFlags(world_state', world_state)
                   /\ Len(world_state'.errors) = Len(world_state.errors) + 1]_vars

\* ------------------------------------------- mission-control claims
\* the handler takes a step on document xml
Handles(xml) == \E connects \in BOOLEAN : onMissionControlMessage(xml, connects)

TornDown ==
    /\ ~world_state'.is_mission_running
    /\ ~commands_connection'

\* C11: a well-formed MissionEnded always leaves is_mission_running false
\* and no command channel; with status ENDED or PLAYER_DIED and no reward it
\* adds no error and changes neither the rewards nor their counter; with any
\* other status it adds exactly one error.
C11_MissionEnded ==
    [][\A xml \in McMessages :
          (xml.xml = "ok" /\ xml.root = "MissionEnded" /\ xml.valid /\ Handles(xml)) =>
              /\ TornDown
              /\ (xml.Status \in {"ENDED", "PLAYER_DIED"} /\ ~xml.RewardPresent) =>
                    /\ world_state'.errors = world_state.errors
                    /\ world_state'.rewards = world_state.rewards
                    /\ world_state'.number_of_rewards_since_last_state =
                          world_state.number_of_rewards_since_last_state
              /\ xml.Status \notin {"ENDED", "PLAYER_DIED"} =>
                    /\ Len(world_state'.errors) = Len(world_state.errors) + 1
                    /\ SubSeq(world_state'.errors, 1, Len(world_state.errors)) =
                          world_state.errors]_vars

C11_Witness ==
    /\ ~world_state.is_mission_running
    /\ world_state.has_mission_begun
    /\ ~commands_connection
    /\ Len(world_state.errors) = 1
    /\ world_state.mission_control_messages # <<>>
    /\ Last(world_state.mission_control_messages).root = "MissionEnded"
    /\ Last(world_state.mission_control_messages).Status = "AGENT_QUIT"

OneMoreError ==
    /\ Len(world_state'.errors) = Len(world_state.errors) + 1
    /\ SubSeq(world_state'.errors, 1, Len(world_state.errors)) = world_state.errors

\* C12, as claimed: a document with root MissionEnded that fails schema
\* parsing, received while a mission runs with its command channel open,
\* adds one error entry and is followed by the teardown: is_mission_running
\* false and no command channel.
C12_InvalidMissionEndedTearsDown ==
    [][\A xml \in McMessages :
          (/\ world_state.is_mission_running
           /\ commands_connection
           /\ xml.xml = "ok" /\ xml.root = "MissionEnded" /\ ~xml.valid
           /\ Handles(xml)) =>
              /\ OneMoreError
              /\ TornDown]_vars

\* the documents the handler classifies: XML with a root element
Classified(xml) == xml.xml = "ok"

ClassifiedSuccessfully(xml) ==
    \/ xml.root = "ping"
    \/ xml.root = "MissionEnded" /\ xml.valid
    \/ /\ xml.root = "MissionInit"
       /\ xml.valid
       /\ ~world_state.is_mission_running
       /\ commands_connection'

ClassifiedAsError(xml) ==
    \/ xml.root \notin {"ping", "MissionEnded", "MissionInit"}
    \/ xml.root = "MissionEnded" /\ ~xml.valid
    \/ xml.root = "MissionInit" /\ (world_state.is_mission_running \/ ~xml.valid)

C14_SendCommandNotOpen ==
    [][\A transmitted \in BOOLEAN :
          (~commands_connection /\ sendCommand(transmitted)) =>
              /\ result' = "command not sent"
              /\ OneMoreError
              /\ world_state' = [world_state EXCEPT !.errors = world_state'.errors]
              /\ UNCHANGED <<current_mission_init, current_mission_record,
                             current_role, servers, commands_stream,
                             commands_connection, pc>>]_vars

C14_Witness ==
    /\ result = "command not sent"
    /\ ~commands_connection
    /\ world_state.has_mission_begun
    /\ ~world_state.is_mission_running
    /\ world_state.errors =
          <<"AgentHost::sendCommand : commands connection is not open">>

\* C15, as claimed: whenever startMission fails after initializeOurServers,
\* close() has run before the failure is reported: is_mission_running is
\* false, the command recording stream is closed and there is no command
\* channel.
C15_FailureAfterClose ==
    [][(pc # "idle" /\ pc' = "idle" /\ result' # "ok") =>
          /\ ~world_state'.is_mission_running
          /\ ~commands_stream'
          /\ ~commands_connection']_vars

\* the calls whose role or video dimensions are invalid
InvalidCalls ==
    {call \in [m : Missions, role : Roles] : ~ArgumentsValid(call.m, call.role)}

\* C16: startMission with a role outside 0..NumberOfAgents-1, or with video
\* requested and a width not divisible by 4 or a height not divisible by 2,
\* fails with the matching error; no listener is created, nothing is sent,
\* and world state, negotiation record and role index stay as they were.
C16_InvalidArguments ==
    [][\A call \in InvalidCalls :
          \A cp \in PoolsRead(call.m, call.role),
             mr \in RecordSpecsRead(call.m, call.role, MissionRecordSpecs) :
              startMission(call.m, cp, mr, call.role) =>
                  /\ result' =
                        IF call.role < 0 \/ call.role >= call.m.NumberOfAgents
                        THEN "Role is invalid"
                        ELSE IF call.m.VideoWidth % 4 # 0
                        THEN "Video width must be divisible by 4."
                        ELSE "Video height must be divisible by 2."
                  /\ LeftAsBefore]_vars

C16_Witness ==
    /\ result = "Video height must be divisible by 2."
    /\ ~servers.mission_control
    /\ ~servers.video
    /\ current_mission_init = NoMissionInit
    /\ sent = <<>>

\* the controller state that close() writes
Closable ==
    [world_state |-> world_state, commands_stream |-> commands_stream,
     commands_connection |-> commands_connection]

\* C17: a Close leaves is_mission_running false, the command recording
\* stream closed and no command channel, changes nothing else (in
\* particular not has_mission_begun, nor any sequence or counter), and a
\* Close of the state it leaves gives that same state.
C17_CloseIdempotent ==
    [][Close =>
          /\ ~world_state'.is_mission_running
          /\ ~commands_stream'
          /\ ~commands_connection'
          /\ world_state' = [world_state EXCEPT !.is_mission_running = FALSE]
          /\ close(world_state') = Closable'
          /\ UNCHANGED <<policy_vars, current_mission_init, current_mission_record,
                         current_role, servers>>]_vars

C17_Witness ==
    /\ result = "closed"
    /\ world_state.has_mission_begun
    /\ world_state.mission_control_messages # <<>>
    /\ Last(world_state.mission_control_messages).root = "MissionInit"
    /\ current_mission_record # NoMissionRecord
    /\ current_mission_record.isRecordingCommands
    /\ ~commands_stream

\* C18: peekWorldState returns a snapshot equal to the world state and
\* leaves the world state, and the rest of the controller, unchanged.
C18_PeekWorldState ==
    [][peekWorldState =>
          /\ returned' = world_state
          /\ UNCHANGED <<world_state, policy_vars, current_mission_init,
                         current_mission_record, current_role, servers,
                         commands_stream, commands_connection>>]_vars

C18_Witness ==
    /\ result = "peeked"
    /\ returned = world_state
    /\ world_state.is_mission_running
    /\ world_state.mission_control_messages # <<>>
    /\ world_state.errors # <<>>

\* ------------------------------------------------------- lock claims
\* C19, as claimed: while startMission is exchanging reservation,
\* find-server or mission-init probes with the hosts, the mutex is free, so
\* that a listener handler, peekWorldState or getWorldState can take it.
C19_LockFreeDuringProbes ==
    pc \in {"reserveClients", "cancelReservations", "findServer", "findClient"} =>
        mutex = "free"

\* C20, as claimed: every operation that reads the negotiation record or the
\* recording spec does so holding the mutex, so it takes its step only when
\* no other thread holds it.
C20_AccessorsHoldLock ==
    [][(getMissionInit \/ getRecordingTemporaryDirectory) => mutex = "free"]_vars

\* ------------------------------------------------- callback claims
\* C21, as claimed: no exception leaves a listener callback; whatever the
\* document, the mission-control handler returns normally.
C21_NoExceptionLeavesCallback ==
    result # "exception left onMissionControlMessage"

\* ---------------------------------------------------- counter claims
\* one of the three since-last-state counters is smaller after the step
SomeCounterDecreases ==
    \/ world_state'.number_of_observations_since_last_state
          < world_state.number_of_observations_since_last_state
    \/ world_state'.number_of_rewards_since_last_state
          < world_state.number_of_rewards_since_last_state
    \/ world_state'.number_of_video_frames_since_last_state
          < world_state.number_of_video_frames_since_last_state

\* the step in which findClient returns and startMission completes
StartMissionSucceeds == \E r \in ClientReplies : findClientSend(r) /\ result' = "ok"

BecomesRunning ==
    ~world_state.is_mission_running /\ world_state'.is_mission_running

\* the last operation was a startMission that threw after negotiating
NegotiationFailed ==
    result \in {"Failed to find the server for this mission",
                "Failed to find an available client for this mission"}

\* the last thing that happened is that a valid MissionEnded closed the mission
MissionJustEnded ==
    /\ ~world_state.is_mission_running
    /\ world_state.has_mission_begun
    /\ world_state.mission_control_messages # <<>>
    /\ Last(world_state.mission_control_messages).root = "MissionEnded"

\* C23, as claimed: a MissionInit document that arrives after a failed
\* startMission, or after the mission has ended, does not mark a mission as
\* running.
C23_RunningOnlyAfterSuccess ==
    [][(NegotiationFailed \/ MissionJustEnded) => ~BecomesRunning]_vars

\* a schema-valid MissionInit document
IsConfirmation(xml) == xml.xml = "ok" /\ xml.root = "MissionInit" /\ xml.valid

\* C24: a confirmation that the accepting host sends while startMission is
\* still in progress is not lost.  startMission holds the mutex until it
\* returns, the handler takes no step before that, the world state that
\* startMission clears on success is never one that a confirmation has marked
\* as running, and the confirmation handled once startMission has returned
\* successfully leaves is_mission_running and has_mission_begun true.
C24_ConfirmationNotLost ==
    /\ [](pc # "idle" => mutex = "agent")
    /\ [][(\E xml \in McMessages : Handles(xml)) => pc = "idle"]_vars
    /\ [][StartMissionSucceeds => ~world_state.is_mission_running]_vars
    /\ [][\A xml \in McMessages :
             (IsConfirmation(xml) /\ result = "ok" /\ Handles(xml)) =>
                 /\ world_state'.is_mission_running
                 /\ world_state'.has_mission_begun]_vars

\* the confirmation has been handled on the world state that startMission
\* cleared: both flags are set and the world state holds nothing but the
\* confirmation
C24_Witness ==
    /\ pc = "idle"
    /\ result = "none"
    /\ world_state.is_mission_running
    /\ world_state.has_mission_begun
    /\ world_state.errors = <<>>
    /\ Len(world_state.mission_control_messages) = 1
    /\ IsConfirmation(world_state.mission_control_messages[1])
    /\ AllCountersZero(world_state)
    /\ commands_connection

\* C25, as claimed: once startMission has succeeded and the mission has not
\* yet been confirmed, a further startMission is rejected: the agent's thread
\* does not get past the running check into another negotiation.
C25_OneOutstandingMission ==
    [][(result = "ok" /\ ~world_state.is_mission_running) => pc' = "idle"]_vars

\* ------------------------------------------------ reservation claims
\* C26, as claimed: when findClient fails after reserveClients has reserved
\* the hosts of a multi-agent mission, every reserved host has been sent a
\* cancellation request by the time startMission throws.
C26_ReservationsCancelled ==
    [][(findClientFail /\ reservedClients # <<>>) =>
          \A k \in 1..Len(reservedClients) :
              \E n \in 1..Len(sent') :
                  /\ sent'[n].request = "MALMO_CANCEL_REQUEST"
                  /\ sent'[n].to = reservedClients[k]]_vars

\* ------------------------------------------------------ flag claims
\* C27: in every reachable state, whatever the interleaving of startMission,
\* the mission-control handler, getWorldState, peekWorldState, sendCommand
\* and close, is_mission_running implies has_mission_begun.
C27_RunningImpliesBegun ==
    world_state.is_mission_running => world_state.has_mission_begun

\* the agent has drained the world state of a running mission: what is left
\* behind still has both flags
C27_Witness ==
    /\ result = "drained"
    /\ returned.is_mission_running
    /\ world_state.is_mission_running
    /\ world_state.has_mission_begun

\* C28: in every reachable state the command connection exists only if
\* is_mission_running is true; it comes into being only in a step of the
\* mission-control handler that leaves the flag set, every step that takes
\* the flag from true to false leaves no connection, and sendCommand
\* transmits only while the flag is set.
C28_ChannelOnlyWhileRunning ==
    /\ [](commands_connection => world_state.is_mission_running)
    /\ [][/\ (~commands_connection /\ commands_connection') =>
                /\ \E xml \in McMessages : IsConfirmation(xml) /\ Handles(xml)
                /\ world_state'.is_mission_running
          /\ (world_state.is_mission_running /\ ~world_state'.is_mission_running) =>
                ~commands_connection'
          /\ result' = "command sent" => world_state.is_mission_running]_vars

\* a command has been transmitted on the connection of a running mission
C28_Witness ==
    /\ result = "command sent"
    /\ commands_connection
    /\ world_state.is_mission_running
    /\ world_state.errors = <<>>

====
